---- MODULE Spec2Model ----
(***************************************************************************)
(* Model of the resource reconciliation helpers of identity-tools-cli:     *)
(*   iamctl/pkg/applications/applicationUtils.go   (applications)          *)
(*   iamctl/pkg/identityproviders (utils file)      (identity providers)   *)
(* Four specifications share one set of variables:                         *)
(*   Spec         the resource lister (count query, list query, names)     *)
(*   MaskSpec     maskOAuthConsumerSecret as a text transform              *)
(*   AuthSpec     isOauthApp / isOauthSecretGiven / isToolMgtApp           *)
(*   KeywordSpec  getAppKeywordMapping / getIdpKeywordMapping              *)
(***************************************************************************)
EXTENDS Integers, Sequences, FiniteSets, TLC

VARIABLES
    rtype,      \* resource type the lister run is about
    pc,         \* position of the lister run
    calls,      \* SendGetListRequest calls issued so far: <<type, size>>
    countResp,  \* response the count query got
    listResp,   \* response the list query got
    count,      \* value returned by getTotal*Count
    countErr,   \* error returned by getTotal*Count
    countBody,  \* body of the count response: none / open / closed
    listBody,   \* body of the list response: none / open / closed
    nilClose,   \* a Close was attempted through a nil response
    warned,     \* the "Retrieving only the default count" line was logged
    items,      \* slice returned by get*List
    listErr,    \* error returned by get*List ("n/a": the function has none)
    names,      \* slice returned by getDeployed*Names
    doc,        \* maskOAuthConsumerSecret: input text
    masked,     \* maskOAuthConsumerSecret: output text
    remasked,   \* maskOAuthConsumerSecret applied to its own output
    mpc,        \* position of the masking run
    file,       \* auth spec: the local file (readable, parsable, entries)
    clientId,   \* utils.SERVER_CONFIGS.ClientId
    oauthRes,   \* result of isOauthApp
    secretRes,  \* result of isOauthSecretGiven
    toolRes,    \* result of isToolMgtApp
    kwConfigs,  \* utils.KEYWORD_CONFIGS
    kwQuery,    \* last keyword-mapping call: <<type, name>>
    kwRes       \* mapping returned by the last keyword-mapping call

listerVars == <<rtype, pc, calls, countResp, listResp, count, countErr,
                countBody, listBody, nilClose, warned, items, listErr, names>>
maskVars == <<doc, masked, remasked, mpc>>
authVars == <<file, clientId, oauthRes, secretRes, toolRes>>
kwVars == <<kwConfigs, kwQuery, kwRes>>
vars == <<listerVars, maskVars, authVars, kwVars>>

None == "none"

----------------------------------------------------------------------------
(* Bounds *)

MaxItems == 2       \* longest item list / largest totalResults in a body
MaxDoc == 5         \* longest text given to maskOAuthConsumerSecret, in tokens
MaxEntries == 2     \* most inboundAuthenticationRequestConfigs in a file

----------------------------------------------------------------------------
(* Resource lister *)

APPLICATIONS == "applications"
IDENTITY_PROVIDERS == "identityProviders"

\* type Application / identityProvider: {Id, Name}
Resource == {[Id |-> "1", Name |-> "a"], [Id |-> "2", Name |-> "b"]}

ItemSeqs == UNION {[1..n -> Resource] : n \in 0..MaxItems}

\* utils.ErrorCodes: the status codes that have a message
ErrorCodes == {401, 500}

\* What SendGetListRequest can hand back: a transport error with no
\* response, or a response with a status and a body that may fail to be
\* read or decoded.  total / elems are the decoded totalResults and list.
NoBody == [err |-> FALSE, status |-> 0, body |-> "n/a", total |-> 0, elems |-> <<>>]
Responses ==
    {[NoBody EXCEPT !.err = TRUE]}
    \cup {[NoBody EXCEPT !.status = s] : s \in {401, 418}}
    \cup {[NoBody EXCEPT !.status = 200, !.body = b] : b \in {"unreadable", "garbage"}}
    \cup {[NoBody EXCEPT !.status = 200, !.body = "json", !.total = t, !.elems = e] :
             t \in 0..MaxItems, e \in ItemSeqs}

\* getTotalAppCount: [count, err, body] at return; the deferred Close runs
\* on every return after the response was obtained.
getTotalAppCount(resp) ==
    IF resp.err
    THEN [count |-> -1, err |-> "failed to retrieve available app list", body |-> "none"]
    ELSE IF resp.status = 200
         THEN IF resp.body = "unreadable"
              THEN [count |-> -1, err |-> "error when reading the retrived app list", body |-> "closed"]
              ELSE IF resp.body = "garbage"
                   THEN [count |-> -1, err |-> "error when unmarshalling the retrived app list", body |-> "closed"]
                   ELSE [count |-> resp.total, err |-> None, body |-> "closed"]
         ELSE IF resp.status \in ErrorCodes
              THEN [count |-> -1, err |-> "error while retrieving app count. Status code", body |-> "closed"]
              ELSE [count |-> -1, err |-> "error while retrieving application count", body |-> "closed"]

\* getTotalIdpCount
getTotalIdpCount(resp) ==
    IF resp.err
    THEN [count |-> -1, err |-> "failed to retrieve available IDP list", body |-> "none"]
    ELSE IF resp.status = 200
         THEN IF resp.body = "unreadable"
              THEN [count |-> -1, err |-> "error when reading the retrived IDP list", body |-> "closed"]
              ELSE IF resp.body = "garbage"
                   THEN [count |-> -1, err |-> "error when unmarshalling the retrived IDP list", body |-> "closed"]
                   ELSE [count |-> resp.total, err |-> None, body |-> "closed"]
         ELSE IF resp.status \in ErrorCodes
              THEN [count |-> -1, err |-> "error while retrieving IDP count. Status code", body |-> "closed"]
              ELSE [count |-> -1, err |-> "error while retrieving identity provider count", body |-> "closed"]

\* The size a caller that falls back to a page size of its own would pass
listSizeDefaulted(c, e) == IF e # None THEN 30 ELSE c

\* The page-size argument getAppList / getIdpList pass to the list query:
\* the count variable as getTotal*Count returned it, error or not.
listSizeArg(c, e) == c

\* a list fetch that forgets to hand back the decoded applications
getAppListDropsItems(resp) ==
    IF resp.err
    THEN [pc |-> "panic", items |-> <<>>, err |-> "n/a", body |-> "none", nilClose |-> TRUE]
    ELSE IF resp.status = 200 /\ resp.body \in {"unreadable", "garbage"}
         THEN [pc |-> "exit", items |-> <<>>, err |-> "n/a", body |-> "open", nilClose |-> FALSE]
         ELSE [pc |-> "done", items |-> <<>>, err |-> "n/a", body |-> "closed", nilClose |-> FALSE]

\* getAppList after the count: [pc, items, err, body, nilClose].
\*   transport error: logged, then `defer resp.Body.Close()` dereferences
\*     the nil response and the goroutine panics;
\*   read / decode error: log.Fatalln exits the process, deferred calls
\*     do not run;
\*   other status: logged, the nil slice is returned.
getAppList(resp) ==
    IF resp.err
    THEN [pc |-> "panic", items |-> <<>>, err |-> "n/a", body |-> "none", nilClose |-> TRUE]
    ELSE IF resp.status = 200
         THEN IF resp.body \in {"unreadable", "garbage"}
              THEN [pc |-> "exit", items |-> <<>>, err |-> "n/a", body |-> "open", nilClose |-> FALSE]
              ELSE [pc |-> "done", items |-> resp.elems, err |-> "n/a", body |-> "closed", nilClose |-> FALSE]
         ELSE [pc |-> "done", items |-> <<>>, err |-> "n/a", body |-> "closed", nilClose |-> FALSE]

\* getIdpList after the count
getIdpList(resp) ==
    IF resp.err
    THEN [pc |-> "done", items |-> <<>>, err |-> "failed to retrieve available IDP list", body |-> "none", nilClose |-> FALSE]
    ELSE IF resp.status = 200
         THEN IF resp.body = "unreadable"
              THEN [pc |-> "done", items |-> <<>>, err |-> "error when reading the retrived IDP list", body |-> "closed", nilClose |-> FALSE]
              ELSE IF resp.body = "garbage"
                   THEN [pc |-> "done", items |-> <<>>, err |-> "error when unmarshalling the retrived IDP list", body |-> "closed", nilClose |-> FALSE]
                   ELSE [pc |-> "done", items |-> resp.elems, err |-> None, body |-> "closed", nilClose |-> FALSE]
         ELSE IF resp.status \in ErrorCodes
              THEN [pc |-> "done", items |-> <<>>, err |-> "error while retrieving IDP list. Status code", body |-> "closed", nilClose |-> FALSE]
              ELSE [pc |-> "done", items |-> <<>>, err |-> "error while retrieving identity provider list", body |-> "closed", nilClose |-> FALSE]

NameOf(s) == [i \in DOMAIN s |-> s[i].Name]

\* getDeployedAppNames: appNames stays the nil slice unless an app is appended
getDeployedAppNames(apps) ==
    [isNil |-> apps = <<>>, elems |-> NameOf(apps)]

\* getDeployedIdpNames: the error is turned into the empty slice []string{}
getDeployedIdpNames(idps, err) ==
    IF err # None
    THEN [isNil |-> FALSE, elems |-> <<>>]
    ELSE [isNil |-> idps = <<>>, elems |-> NameOf(idps)]

NoNames == [isNil |-> TRUE, elems |-> <<"?">>]

ListerInit ==
    /\ rtype \in {APPLICATIONS, IDENTITY_PROVIDERS}
    /\ pc = "start"
    /\ calls = <<>>
    /\ countResp = NoBody
    /\ listResp = NoBody
    /\ count = 0
    /\ countErr = None
    /\ countBody = "none"
    /\ listBody = "none"
    /\ nilClose = FALSE
    /\ warned = FALSE
    /\ items = <<>>
    /\ listErr = None
    /\ names = NoNames

ListerIdle ==
    /\ rtype = APPLICATIONS
    /\ pc = "off"
    /\ calls = <<>>
    /\ countResp = NoBody
    /\ listResp = NoBody
    /\ count = 0
    /\ countErr = None
    /\ countBody = "none"
    /\ listBody = "none"
    /\ nilClose = FALSE
    /\ warned = FALSE
    /\ items = <<>>
    /\ listErr = None
    /\ names = NoNames

\* get*List, first half: the call of getTotal*Count, whose outcome for the
\* response resp is out, and the warning
CountStep(r, resp, out) ==
    /\ rtype = r
    /\ pc = "start"
    /\ calls' = Append(calls, <<r, -1>>)
    /\ countResp' = resp
    /\ count' = out.count
    /\ countErr' = out.err
    /\ countBody' = out.body
    /\ warned' = (out.err # None)
    /\ pc' = "counted"
    /\ UNCHANGED <<rtype, listResp, listBody, nilClose, items, listErr, names>>

\* get*List, second half: the list query and the decoding of its response
\* resp, with outcome out
ListStep(r, resp, out) ==
    /\ rtype = r
    /\ pc = "counted"
    /\ calls' = Append(calls, <<r, listSizeArg(count, countErr)>>)
    /\ listResp' = resp
    /\ pc' = out.pc
    /\ items' = out.items
    /\ listErr' = out.err
    /\ listBody' = out.body
    /\ nilClose' = out.nilClose
    /\ UNCHANGED <<rtype, countResp, count, countErr, countBody, warned, names>>

AppCount == \E resp \in Responses : CountStep(APPLICATIONS, resp, getTotalAppCount(resp))
IdpCount == \E resp \in Responses : CountStep(IDENTITY_PROVIDERS, resp, getTotalIdpCount(resp))
AppList == \E resp \in Responses : ListStep(APPLICATIONS, resp, getAppList(resp))
IdpList == \E resp \in Responses : ListStep(IDENTITY_PROVIDERS, resp, getIdpList(resp))

\* getDeployedAppNames, after getAppList returned
DeployedAppNames ==
    /\ rtype = APPLICATIONS
    /\ pc = "done"
    /\ names' = getDeployedAppNames(items)
    /\ pc' = "named"
    /\ UNCHANGED <<rtype, calls, countResp, listResp, count, countErr,
                   countBody, listBody, nilClose, warned, items, listErr>>

\* getDeployedIdpNames, after getIdpList returned
DeployedIdpNames ==
    /\ rtype = IDENTITY_PROVIDERS
    /\ pc = "done"
    /\ names' = getDeployedIdpNames(items, listErr)
    /\ pc' = "named"
    /\ UNCHANGED <<rtype, calls, countResp, listResp, count, countErr,
                   countBody, listBody, nilClose, warned, items, listErr>>

----------------------------------------------------------------------------
(* maskOAuthConsumerSecret *)

\* The text is a sequence of tokens: "L" the label `oauthConsumerSecret:`,
\* "N" the word `null`, "S" a blank, "NL" a line feed, "X" any other text,
\* "M" the mask utils.SENSITIVE_FIELD_MASK.
Token == {"L", "N", "S", "NL", "X"}
SENSITIVE_FIELD_MASK == "M"

Docs == UNION {[1..n -> Token] : n \in 0..MaxDoc}

\* \s of the pattern: blanks and line terminators alike
IsSpace(c) == c \in {"S", "NL"}

\* (?m)^ and (?m)$ at position p (p is the index of the next token)
BOL(s, p) == p = 1 \/ s[p - 1] = "NL"
EOL(s, p) == p = Len(s) + 1 \/ s[p] = "NL"

\* greedy \s* from p: the position after the last token it takes
RECURSIVE SkipSpace(_, _)
SkipSpace(s, p) ==
    IF p <= Len(s) /\ IsSpace(s[p]) THEN SkipSpace(s, p + 1) ELSE p

At(s, p, tok) == p <= Len(s) /\ s[p] = tok

\* a pattern that takes any value for the placeholder
ValueIsAnything(s, p) == p <= Len(s) /\ ~IsSpace(s[p])

\* the literal `null` of the pattern
ValueIsNull(s, p) == At(s, p, "N")

\* `\s*$` after the value: greedy, backing off to the last position in
\* t..u where $ holds; 0 when there is none
TrailEnd(s, t) ==
    LET u == SkipSpace(s, t)
        ends == {e \in t..u : EOL(s, e)}
    IN IF ends = {} THEN 0 ELSE CHOOSE e \in ends : \A f \in ends : f <= e

\* (^\s*oauthConsumerSecret:\s*)null\s*$ anchored at i:
\* [ok, g1 (position after group 1), end (position after the match)]
MatchAt(s, i) ==
    LET q == SkipSpace(s, i)
        r == SkipSpace(s, q + 1)
        e == TrailEnd(s, r + 1)
    IN IF BOL(s, i) /\ At(s, q, "L") /\ ValueIsNull(s, r) /\ e # 0
       THEN [ok |-> TRUE, g1 |-> r, end |-> e]
       ELSE [ok |-> FALSE, g1 |-> 0, end |-> 0]

Slice(s, a, b) == [k \in 1..(b - a) |-> s[a + k - 1]]

\* ReplaceAllString from position pos: the leftmost match is replaced by
\* group 1 followed by the mask, and the scan goes on after the match
RECURSIVE ReplaceAllFrom(_, _)
ReplaceAllFrom(s, pos) ==
    LET starts == {i \in pos..Len(s) : MatchAt(s, i).ok} IN
    IF starts = {}
    THEN Slice(s, pos, Len(s) + 1)
    ELSE LET i == CHOOSE j \in starts : \A k \in starts : j <= k
             m == MatchAt(s, i)
         IN Slice(s, pos, i) \o Slice(s, i, m.g1) \o <<SENSITIVE_FIELD_MASK>>
              \o ReplaceAllFrom(s, m.end)

maskOAuthConsumerSecret(fileContent) == ReplaceAllFrom(fileContent, 1)

MaskInit ==
    /\ doc \in Docs
    /\ masked = <<>>
    /\ remasked = <<>>
    /\ mpc = "in"

MaskIdle ==
    /\ doc = <<>>
    /\ masked = <<>>
    /\ remasked = <<>>
    /\ mpc = "off"

\* export: the file content is masked before it is written
Mask ==
    /\ mpc = "in"
    /\ masked' = maskOAuthConsumerSecret(doc)
    /\ mpc' = "masked"
    /\ UNCHANGED <<doc, remasked>>

\* a later export of the file that was written
Remask ==
    /\ mpc = "masked"
    /\ remasked' = maskOAuthConsumerSecret(masked)
    /\ mpc' = "remasked"
    /\ UNCHANGED <<doc, masked>>

----------------------------------------------------------------------------
(* Auth-type classification and the tool-management guard *)

\* Strings whose letter case matters are sequences of characters.
OAUTH2 == <<"o", "a", "u", "t", "h", "2">>

Upper == <<"O", "A", "U", "T", "H", "S", "M", "L">>
Lower == <<"o", "a", "u", "t", "h", "s", "m", "l">>

\* strings.ToLower, character by character
ToLowerChar(c) ==
    IF \E k \in DOMAIN Upper : Upper[k] = c
    THEN Lower[CHOOSE k \in DOMAIN Upper : Upper[k] = c]
    ELSE c
ToLower(str) == [k \in DOMAIN str |-> ToLowerChar(str[k])]

AuthTypes == {OAUTH2,
              <<"O", "A", "u", "t", "h", "2">>,
              <<"o", "a", "u", "t", "h">>,
              <<"s", "a", "m", "l">>}
AuthKeys == {"k1", "K1"}
\* the scalar written after `oauthConsumerSecret:` in the file
RawSecrets == {"null", "", "s3cret"}

\* one element of inboundAuthenticationRequestConfigs as written in the file
RawEntry == [inboundAuthType : AuthTypes, inboundAuthKey : AuthKeys,
             oauthConsumerSecret : RawSecrets]
RawEntrySeqs == UNION {[1..n -> RawEntry] : n \in 0..MaxEntries}

\* A local file: whether it can be read, whether its content is well-formed
\* YAML of the AuthConfig shape, and the entries it declares.
Files ==
    {[readable |-> FALSE, parsable |-> FALSE, entries |-> <<>>],
     [readable |-> TRUE, parsable |-> FALSE, entries |-> <<>>]}
    \cup {[readable |-> TRUE, parsable |-> TRUE, entries |-> es] : es \in RawEntrySeqs}

\* yaml.Unmarshal into a string field: the null scalars (`null`, an absent
\* value) leave the zero value "", any other scalar is kept.
decodeString(raw) == IF raw \in {"null", ""} THEN "" ELSE raw

\* unmarshalAuthConfig: [err, configs]
unmarshalAuthConfig(data) ==
    IF ~data.parsable
    THEN [err |-> "failed to unmarshal auth config", configs |-> <<>>]
    ELSE [err |-> None,
          configs |-> [k \in DOMAIN data.entries |->
              [InboundAuthType |-> data.entries[k].inboundAuthType,
               InboundAuthKey |-> data.entries[k].inboundAuthKey,
               OauthConsumerSecret |-> decodeString(data.entries[k].oauthConsumerSecret)]]]

\* a comparison that forgets to lower-case the type
IsOauthTypeExact(t) == t = OAUTH2

\* strings.ToLower(requestConfig.InboundAuthType) == utils.OAUTH2
IsOauthType(t) == ToLower(t) = OAUTH2

\* isOauthApp: [val, err]
isOauthApp(fileData) ==
    LET config == unmarshalAuthConfig(fileData) IN
    IF config.err # None
    THEN [val |-> FALSE, err |-> config.err]
    ELSE [val |-> \E k \in DOMAIN config.configs :
                       IsOauthType(config.configs[k].InboundAuthType),
          err |-> None]

\* a secret test that looks at every entry, OAuth2 or not
SecretGivenAnyType(rc) == rc.OauthConsumerSecret # ""

\* the nested test of isOauthSecretGiven on one entry
SecretGiven(rc) ==
    IsOauthType(rc.InboundAuthType) /\ rc.OauthConsumerSecret # ""

\* isOauthSecretGiven: [val, err]
isOauthSecretGiven(modifiedFileData) ==
    LET config == unmarshalAuthConfig(modifiedFileData) IN
    IF config.err # None
    THEN [val |-> FALSE, err |-> config.err]
    ELSE [val |-> \E k \in DOMAIN config.configs : SecretGiven(config.configs[k]),
          err |-> None]

\* a guard that swallows the parse error
isToolMgtAppLenient(f, cid) ==
    IF ~f.readable
    THEN [val |-> FALSE, err |-> "failed to read file"]
    ELSE [val |-> \E k \in DOMAIN unmarshalAuthConfig(f).configs :
                       unmarshalAuthConfig(f).configs[k].InboundAuthKey = cid,
          err |-> None]

\* isToolMgtApp: [val, err]
isToolMgtApp(f, cid) ==
    IF ~f.readable
    THEN [val |-> FALSE, err |-> "failed to read file"]
    ELSE LET config == unmarshalAuthConfig(f) IN
         IF config.err # None
         THEN [val |-> FALSE, err |-> config.err]
         ELSE [val |-> \E k \in DOMAIN config.configs :
                            config.configs[k].InboundAuthKey = cid,
               err |-> None]

NoResult == [val |-> FALSE, err |-> "not called"]

AuthInit ==
    /\ file \in Files
    /\ clientId \in {"k1", "k2"}
    /\ oauthRes = NoResult
    /\ secretRes = NoResult
    /\ toolRes = NoResult

AuthIdle ==
    /\ file = [readable |-> FALSE, parsable |-> FALSE, entries |-> <<>>]
    /\ clientId = "off"
    /\ oauthRes = NoResult
    /\ secretRes = NoResult
    /\ toolRes = NoResult

\* isOauthApp is handed the content of a file that was read
IsOauthApp ==
    /\ clientId # "off"
    /\ file.readable
    /\ oauthRes = NoResult
    /\ oauthRes' = isOauthApp(file)
    /\ UNCHANGED <<file, clientId, secretRes, toolRes>>

IsOauthSecretGiven ==
    /\ clientId # "off"
    /\ file.readable
    /\ secretRes = NoResult
    /\ secretRes' = isOauthSecretGiven(file)
    /\ UNCHANGED <<file, clientId, oauthRes, toolRes>>

IsToolMgtApp ==
    /\ clientId # "off"
    /\ toolRes = NoResult
    /\ toolRes' = isToolMgtApp(file, clientId)
    /\ UNCHANGED <<file, clientId, oauthRes, secretRes>>

----------------------------------------------------------------------------
(* Keyword resolution *)

ResourceNames == {"a", "b"}
\* a keyword mapping: map[string]interface{}
Mappings == [{"HOST"} -> {"dev", "prod"}]

\* An override table (KEYWORD_CONFIGS.ApplicationConfigs / IdpConfigs): the
\* nil map, or a map with a type-level default and per-name entries.
NilTable == [isNil |-> TRUE, typeDefault |-> [k \in {"HOST"} |-> "dev"], byName |-> <<>>]
Tables ==
    {NilTable}
    \cup {[isNil |-> FALSE, typeDefault |-> d, byName |-> f] :
            d \in Mappings,
            f \in UNION {[ns -> Mappings] : ns \in SUBSET ResourceNames}}

KeywordConfigs == [KeywordMappings : Mappings, ApplicationConfigs : Tables,
                   IdpConfigs : Tables]

\* utils.ResolveAdvancedKeywordMapping: the mapping scoped to the name,
\* else the type-level default of the table
ResolveAdvancedKeywordMapping(name, table) ==
    IF name \in DOMAIN table.byName THEN table.byName[name] ELSE table.typeDefault

\* a resolver that consults the other resource type's table
getAppKeywordMappingCrossed(appName, cfg) ==
    IF ~cfg.IdpConfigs.isNil
    THEN ResolveAdvancedKeywordMapping(appName, cfg.IdpConfigs)
    ELSE cfg.KeywordMappings

\* getAppKeywordMapping
getAppKeywordMapping(appName, cfg) ==
    IF ~cfg.ApplicationConfigs.isNil
    THEN ResolveAdvancedKeywordMapping(appName, cfg.ApplicationConfigs)
    ELSE cfg.KeywordMappings

\* getIdpKeywordMapping
getIdpKeywordMapping(idpName, cfg) ==
    IF ~cfg.IdpConfigs.isNil
    THEN ResolveAdvancedKeywordMapping(idpName, cfg.IdpConfigs)
    ELSE cfg.KeywordMappings

NoMapping == [k \in {"HOST"} |-> "unset"]
NoConfigs == [KeywordMappings |-> NoMapping, ApplicationConfigs |-> NilTable,
              IdpConfigs |-> NilTable]

KeywordInit ==
    /\ kwConfigs \in KeywordConfigs
    /\ kwQuery = <<"none", "none">>
    /\ kwRes = NoMapping

KeywordIdle ==
    /\ kwConfigs = NoConfigs
    /\ kwQuery = <<"off", "off">>
    /\ kwRes = NoMapping

GetAppKeywordMapping ==
    /\ kwQuery[1] # "off"
    /\ \E appName \in ResourceNames :
         /\ kwQuery' = <<APPLICATIONS, appName>>
         /\ kwRes' = getAppKeywordMapping(appName, kwConfigs)
    /\ UNCHANGED kwConfigs

GetIdpKeywordMapping ==
    /\ kwQuery[1] # "off"
    /\ \E idpName \in ResourceNames :
         /\ kwQuery' = <<IDENTITY_PROVIDERS, idpName>>
         /\ kwRes' = getIdpKeywordMapping(idpName, kwConfigs)
    /\ UNCHANGED kwConfigs

----------------------------------------------------------------------------
(* Specifications *)

Init == ListerInit /\ MaskIdle /\ AuthIdle /\ KeywordIdle
Next ==
    \/ (AppCount /\ UNCHANGED <<maskVars, authVars, kwVars>>)
    \/ (IdpCount /\ UNCHANGED <<maskVars, authVars, kwVars>>)
    \/ (AppList /\ UNCHANGED <<maskVars, authVars, kwVars>>)
    \/ (IdpList /\ UNCHANGED <<maskVars, authVars, kwVars>>)
    \/ (DeployedAppNames /\ UNCHANGED <<maskVars, authVars, kwVars>>)
    \/ (DeployedIdpNames /\ UNCHANGED <<maskVars, authVars, kwVars>>)
Spec == Init /\ [][Next]_vars

MaskSpecInit == ListerIdle /\ MaskInit /\ AuthIdle /\ KeywordIdle
MaskNext ==
    \/ (Mask /\ UNCHANGED <<listerVars, authVars, kwVars>>)
    \/ (Remask /\ UNCHANGED <<listerVars, authVars, kwVars>>)
MaskSpec == MaskSpecInit /\ [][MaskNext]_vars

AuthSpecInit == ListerIdle /\ MaskIdle /\ AuthInit /\ KeywordIdle
AuthNext ==
    \/ (IsOauthApp /\ UNCHANGED <<listerVars, maskVars, kwVars>>)
    \/ (IsOauthSecretGiven /\ UNCHANGED <<listerVars, maskVars, kwVars>>)
    \/ (IsToolMgtApp /\ UNCHANGED <<listerVars, maskVars, kwVars>>)
AuthSpec == AuthSpecInit /\ [][AuthNext]_vars

KeywordSpecInit == ListerIdle /\ MaskIdle /\ AuthIdle /\ KeywordInit
KeywordNext ==
    \/ (GetAppKeywordMapping /\ UNCHANGED <<listerVars, maskVars, authVars>>)
    \/ (GetIdpKeywordMapping /\ UNCHANGED <<listerVars, maskVars, authVars>>)
KeywordSpec == KeywordSpecInit /\ [][KeywordNext]_vars

----------------------------------------------------------------------------
(* Properties of the resource lister (Spec) *)

ListReturned == pc \in {"done", "named"}
ListEnded == pc \in {"done", "named", "panic", "exit"}
CountQueryFailed == countResp.err \/ countResp.status # 200
CountQueryOk == ~countResp.err /\ countResp.status = 200 /\ countResp.body = "json"
ListQueryFailed == listResp.err \/ listResp.status # 200
ListQueryOk == ~listResp.err /\ listResp.status = 200 /\ listResp.body = "json"

\* C1: when the count query fails (transport error or non-200 status) and
\* the list query then succeeds with status 200 and a decodable body of N
\* items, get*List returns exactly those N items in order, with no error,
\* after the warning, and the run is not aborted.
C1_CountFailureTolerated ==
    (ListEnded /\ CountQueryFailed /\ ListQueryOk) =>
        /\ ListReturned
        /\ items = listResp.elems
        /\ listErr \in {None, "n/a"}
        /\ warned

C1_Witness ==
    /\ pc = "done"
    /\ CountQueryFailed
    /\ ListQueryOk
    /\ Len(listResp.elems) >= 2
    /\ items = listResp.elems

\* C2: when the list query fails (transport error or non-200 status),
\* get*List returns an error to its caller, it neither crashes nor reports
\* a successful empty result, and what getDeployed*Names returns differs
\* from what it returns for a server with zero resources.
C2_ListFailureReported ==
    (ListEnded /\ ListQueryFailed) =>
        /\ ListReturned
        /\ listErr \notin {None, "n/a"}
        /\ (pc = "named" => names # [isNil |-> TRUE, elems |-> <<>>])

\* C3: at the end of getTotal*Count and of get*List every response body
\* that was obtained is closed, and no Close is attempted on a response that
\* was never obtained.
C3_BodiesClosed ==
    /\ (pc \notin {"off", "start"} =>
            countBody = IF countResp.err THEN "none" ELSE "closed")
    /\ (ListEnded =>
            /\ listBody = IF listResp.err THEN "none" ELSE "closed"
            /\ ~nilClose)

\* C10 as stated: the count query (sentinel -1) comes first, exactly one
\* list query follows, its size is the discovered total when the count
\* succeeded and a default size otherwise, never the sentinel -1.
C10_ListNeverSentinel ==
    ListEnded =>
        /\ Len(calls) = 2
        /\ calls[1] = <<rtype, -1>>
        /\ calls[2][1] = rtype
        /\ (CountQueryOk => calls[2][2] = countResp.total)
        /\ calls[2][2] # -1

\* C10 amended: the count query (sentinel -1) is issued and completed
\* before the list query, exactly one list query follows, and its size
\* argument is the discovered total when the count succeeded and the value
\* -1 that getTotal*Count returned with its error when it failed.
C10_ListSizeFollowsCount ==
    /\ (pc = "start" => calls = <<>>)
    /\ (pc = "counted" => calls = << <<rtype, -1>> >> /\ countBody # "open")
    /\ (ListEnded =>
            calls = << <<rtype, -1>>,
                       <<rtype, IF CountQueryOk THEN countResp.total ELSE -1>> >>)

C10_Witness ==
    /\ ListEnded
    /\ ~CountQueryOk
    /\ calls[2] = <<rtype, -1>>
    /\ ListQueryOk

----------------------------------------------------------------------------
(* Properties of maskOAuthConsumerSecret (MaskSpec) *)

NumLines(s) == Cardinality({k \in DOMAIN s : s[k] = "NL"})

\* C4: masking changes only the `null` of a secret line; every other token,
\* blanks and line terminators included, is the same in the output, which
\* has as many lines as the input.
C4_OnlyNullValueChanges ==
    mpc \in {"masked", "remasked"} =>
        /\ Len(masked) = Len(doc)
        /\ NumLines(masked) = NumLines(doc)
        /\ \A k \in DOMAIN doc :
              k \in DOMAIN masked /\
              (masked[k] = doc[k] \/ (doc[k] = "N" /\ masked[k] = SENSITIVE_FIELD_MASK))

\* the value written after the label at position i: the tokens other than
\* blanks up to the end of that line
LineEnd(s, i) ==
    CHOOSE e \in i..(Len(s) + 1) :
        /\ EOL(s, e)
        /\ \A f \in i..(e - 1) : ~EOL(s, f)
ValueTokens(s, i) == {j \in (i + 1)..(LineEnd(s, i + 1) - 1) : s[j] # "S"}
SecretGivenAt(s, i) ==
    /\ ValueTokens(s, i) # {}
    /\ ~(Cardinality(ValueTokens(s, i)) = 1 /\ \A j \in ValueTokens(s, i) : s[j] = "N")
AllSecretsGiven(s) == \A i \in DOMAIN s : s[i] = "L" => SecretGivenAt(s, i)

AllSpace(s, a, b) == \A k \in a..(b - 1) : IsSpace(s[k])
\* the pattern has an occurrence somewhere in s
HasPatternMatch(s) ==
    \E i, q, r \in DOMAIN s : \E e \in 1..(Len(s) + 1) :
        /\ i <= q /\ q < r /\ r < e
        /\ BOL(s, i) /\ AllSpace(s, i, q)
        /\ s[q] = "L" /\ AllSpace(s, q + 1, r)
        /\ s[r] = "N" /\ AllSpace(s, r + 1, e)
        /\ EOL(s, e)

----------------------------------------------------------------------------
(* Properties of the auth classification (AuthSpec) *)

\* equality of two strings ignoring letter case
EqualFold(a, b) ==
    /\ Len(a) = Len(b)
    /\ \A k \in DOMAIN a :
          \/ a[k] = b[k]
          \/ \E j \in DOMAIN Upper : {a[k], b[k]} = {Upper[j], Lower[j]}

FileOk == file.readable /\ file.parsable

\* C6: isToolMgtApp returns true iff the file is readable and parsable and
\* some entry's inboundAuthKey equals the configured client id; a file that
\* cannot be read or parsed gives an error, never false without an error.
C6_ProtectedIffKeyMatches ==
    toolRes # NoResult =>
        /\ toolRes.val <=>
              (FileOk /\ \E k \in DOMAIN file.entries :
                            file.entries[k].inboundAuthKey = clientId)
        /\ (toolRes.err # None) <=> ~FileOk

C6_Witness ==
    /\ toolRes # NoResult
    /\ toolRes.val
    /\ \E k \in DOMAIN file.entries : file.entries[k].inboundAuthKey # clientId

\* C7: for a parsable config isOauthApp returns (true, no error) exactly
\* when some entry's authType equals "oauth2" ignoring letter case, (false,
\* no error) otherwise; it returns an error only when parsing fails.
C7_OauthIffSomeEntryFolds ==
    oauthRes # NoResult =>
        /\ (oauthRes.err # None) <=> ~file.parsable
        /\ oauthRes.val <=>
              (file.parsable /\ \E k \in DOMAIN file.entries :
                                  EqualFold(file.entries[k].inboundAuthType, OAUTH2))

C7_Witness ==
    /\ oauthRes # NoResult
    /\ oauthRes.val
    /\ \A k \in DOMAIN file.entries : file.entries[k].inboundAuthType # OAUTH2

\* C8: for a parsable config isOauthSecretGiven returns true exactly when
\* some entry is OAuth2 (ignoring case) with a secret that is neither empty
\* nor the placeholder null; whenever it is true, isOauthApp is true too.
C8_SecretOnlyOnOauthEntry ==
    (secretRes # NoResult /\ file.parsable) =>
        /\ secretRes.err = None
        /\ secretRes.val <=>
              \E k \in DOMAIN file.entries :
                  /\ EqualFold(file.entries[k].inboundAuthType, OAUTH2)
                  /\ file.entries[k].oauthConsumerSecret \notin {"", "null"}
        /\ (secretRes.val /\ oauthRes # NoResult => oauthRes.val)

C8_Witness ==
    /\ secretRes # NoResult
    /\ ~secretRes.val
    /\ oauthRes # NoResult
    /\ oauthRes.val
    /\ \E k \in DOMAIN file.entries :
          /\ ~EqualFold(file.entries[k].inboundAuthType, OAUTH2)
          /\ file.entries[k].oauthConsumerSecret = "s3cret"
    /\ \E k \in DOMAIN file.entries :
          /\ EqualFold(file.entries[k].inboundAuthType, OAUTH2)
          /\ file.entries[k].oauthConsumerSecret = "null"

----------------------------------------------------------------------------
(* Properties of the keyword resolution (KeywordSpec) *)

TableOf(t) ==
    IF t = APPLICATIONS THEN kwConfigs.ApplicationConfigs ELSE kwConfigs.IdpConfigs

KeywordResultRight ==
    kwQuery[1] \in {APPLICATIONS, IDENTITY_PROVIDERS} =>
        kwRes = IF TableOf(kwQuery[1]).isNil
                THEN kwConfigs.KeywordMappings
                ELSE ResolveAdvancedKeywordMapping(kwQuery[2], TableOf(kwQuery[1]))

\* C9: the keyword mapping of a resource is the global mapping when its
\* type has no override table, and otherwise exactly what the advanced
\* resolution gives for that name and that type's table; KEYWORD_CONFIGS is
\* left as it was.
C9_KeywordsFromOwnTable ==
    []KeywordResultRight /\ [][kwConfigs' = kwConfigs]_vars

C9_Witness ==
    /\ kwQuery[1] = APPLICATIONS
    /\ ~kwConfigs.ApplicationConfigs.isNil
    /\ kwConfigs.IdpConfigs.isNil
    /\ kwRes # kwConfigs.KeywordMappings

====
